---- MODULE Spec2Model ----
(***************************************************************************)
(* Model of the Conversational AI Builder backend (server/index.js): the   *)
(* chat route with its two provider calls and the audio file it writes,    *)
(* the audio GET route, and the cleanup route, over an explicit clock and  *)
(* an explicit audio directory.                                            *)
(***************************************************************************)
EXTENDS Integers, Sequences, FiniteSets, TLC

(* ---------------------------------------------------------------------- *)
(* Bounds                                                                  *)
(* ---------------------------------------------------------------------- *)

\* number of chat requests a behaviour issues (they may overlap)
NumReqs == 2

\* how many times a behaviour observes the clock to have advanced
MaxTicks == 2

(* ---------------------------------------------------------------------- *)
(* Values                                                                  *)
(* ---------------------------------------------------------------------- *)

\* Text is a sequence of one-character strings.  The JavaScript value
\* undefined (a field missing from the JSON body) is kept distinct from
\* every text.
Undefined == <<"undefined">>

Whitespace == {" "}

SayHello == <<"S", "a", "y", " ", "h", "e", "l", "l", "o">>

\* candidate bodies of a chat request: prompt and systemMessage
PromptInputs == {Undefined, <<>>, <<" ">>, <<" ", " ">>, <<" ", "a", " ">>, SayHello}

SystemInputs == {Undefined, <<>>, <<" ">>, <<"b">>, <<" ", "b", " ">>}

\* the bodies and provider failures used when requests overlap
LoadPrompts == {<<" ">>, SayHello}
LoadSystems == {Undefined}
LoadErrorCodes == {"none"}

\* what the text-generation provider may answer
TextOutputs == {<<"h", "i">>}

\* error.code of a rejected provider call ("none": the error has no code)
ErrorCodes == {"insufficient_quota", "invalid_api_key", "rate_limit_exceeded", "none"}

\* process.env.NODE_ENV ("unset": the variable is not defined)
NodeEnvs == {"unset", "development", "production", "test"}

oneHour == 60 * 60 * 1000

Reqs == 1 .. NumReqs

\* path.join(__dirname, 'public', 'audio'), relative to __dirname
audioDir == <<"public", "audio">>

\* what exists under __dirname besides the audio files: the running module
\* itself and the two directories created at start-up
StaticFiles == {<<"index.js">>}
StaticDirs == {<<>>, <<"public">>, audioDir}

VARIABLES clock, nodeEnv, audioFiles, chat, get, cleanup

vars == <<clock, nodeEnv, audioFiles, chat, get, cleanup>>

(* ---------------------------------------------------------------------- *)
(* Pure helpers                                                            *)
(* ---------------------------------------------------------------------- *)

\* String.prototype.trim
RECURSIVE TrimStart(_)
TrimStart(s) ==
  IF s # <<>> /\ Head(s) \in Whitespace THEN TrimStart(Tail(s)) ELSE s

RECURSIVE TrimEnd(_)
TrimEnd(s) ==
  IF s # <<>> /\ s[Len(s)] \in Whitespace
  THEN TrimEnd(SubSeq(s, 1, Len(s) - 1))
  ELSE s

trim(s) == TrimEnd(TrimStart(s))

\* JavaScript truthiness of a text-or-undefined value
Truthy(v) == v # Undefined /\ v # <<>>

\* the check without its trim: only a missing or empty prompt is rejected
PromptRejectedNoTrim(prompt) == ~Truthy(prompt)

\* line 56: !prompt || prompt.trim() === ''
PromptRejected(prompt) == ~Truthy(prompt) \/ trim(prompt) = <<>>

\* lines 66-68: the fixed default; its first words stand for the literal
FixedDefaultSystemMessage ==
  <<"Y", "o", "u", " ", "a", "r", "e", " ", "a", " ", "h", "e", "l", "p", "f", "u", "l">>

\* the system message trimmed before use
defaultSystemMessageTrimmed(systemMessage) ==
  IF Truthy(systemMessage) THEN trim(systemMessage) ELSE FixedDefaultSystemMessage

\* ?? in place of ||: only a missing system message gets the default
defaultSystemMessageNullish(systemMessage) ==
  IF systemMessage # Undefined THEN systemMessage ELSE FixedDefaultSystemMessage

\* the fallback operand lost
defaultSystemMessageNoFallback(systemMessage) ==
  IF Truthy(systemMessage) THEN systemMessage ELSE <<>>

\* lines 65-68: systemMessage || "<the fixed default>"
defaultSystemMessage(systemMessage) ==
  IF Truthy(systemMessage) THEN systemMessage ELSE FixedDefaultSystemMessage

\* the user messages of the requests seen so far kept as conversation
\* history and sent along
MessagesWithHistory(prompt, systemMessage) ==
  LET seen == {q \in Reqs : chat[q].messages # <<>>}
      system == [role |-> "system", content |-> defaultSystemMessage(systemMessage)]
      user == [role |-> "user", content |-> prompt]
  IN IF seen = {} THEN <<system, user>>
     ELSE <<system, chat[CHOOSE q \in seen : TRUE].messages[2], user>>

\* lines 73-82: the messages of the chat completion call
Messages(prompt, systemMessage) ==
  << [role |-> "system", content |-> defaultSystemMessage(systemMessage)],
     [role |-> "user", content |-> prompt] >>

\* line 99: `response_${Date.now()}.mp3`
audioFileName(now) == "response_" \o ToString(now) \o ".mp3"

\* line 107: `/audio/${audioFileName}`
audioUrl(name) == "/audio/" \o name

\* detail withheld in production only
DetailsOutsideProduction(env, error) ==
  IF env # "production" THEN error.message ELSE "undefined"

\* line 140: process.env.NODE_ENV === 'development' ? error.message : undefined
Details(env, error) == IF env = "development" THEN error.message ELSE "undefined"

\* the catch block without its invalid_api_key branch
CatchResponseNoAuth(env, error) ==
  IF error.code = "insufficient_quota"
  THEN [status |-> 429,
        error |-> "OpenAI API quota exceeded. Please check your API limits.",
        type |-> "quota_error"]
  ELSE [status |-> 500,
        error |-> "Internal server error while processing your request",
        type |-> "server_error",
        details |-> Details(env, error)]

\* lines 119-142: the catch block of the chat route
CatchResponse(env, error) ==
  IF error.code = "insufficient_quota"
  THEN [status |-> 429,
        error |-> "OpenAI API quota exceeded. Please check your API limits.",
        type |-> "quota_error"]
  ELSE IF error.code = "invalid_api_key"
  THEN [status |-> 401,
        error |-> "Invalid OpenAI API key. Please check your configuration.",
        type |-> "auth_error"]
  ELSE [status |-> 500,
        error |-> "Internal server error while processing your request",
        type |-> "server_error",
        details |-> Details(env, error)]

ProviderError(code) == [code |-> code, message |-> "provider error"]

\* path.join(audioDir, filename): the segments of filename are applied to
\* the directory, "." and "" dropped and ".." stepping to the parent
RECURSIVE Join(_, _)
Join(dir, segs) ==
  IF segs = <<>> THEN dir
  ELSE LET s == Head(segs)
       IN IF s = "." \/ s = "" THEN Join(dir, Tail(segs))
          ELSE IF s = ".."
          THEN IF dir # <<>> /\ dir[Len(dir)] # ".."
               THEN Join(SubSeq(dir, 1, Len(dir) - 1), Tail(segs))
               ELSE Join(Append(dir, ".."), Tail(segs))
          ELSE Join(Append(dir, s), Tail(segs))

\* the audio file a path denotes, "" when it denotes none
AudioEntry(p) ==
  IF Len(p) = 3 /\ SubSeq(p, 1, 2) = audioDir THEN p[3] ELSE ""

\* the ancestors of __dirname are directories
IsAncestor(p) == p # <<>> /\ \A i \in 1 .. Len(p) : p[i] = ".."

\* fs.existsSync
existsSync(files, p) ==
  \/ p \in StaticFiles
  \/ p \in StaticDirs
  \/ IsAncestor(p)
  \/ AudioEntry(p) \in DOMAIN files

\* the names the forEach visits before it reaches bad
RECURSIVE forEachBefore(_, _)
forEachBefore(names, bad) ==
  IF names = {} THEN {}
  ELSE LET file == CHOOSE n \in names : TRUE
       IN IF file = bad THEN {}
          ELSE {file} \cup forEachBefore(names \ {file}, bad)

\* the age test with >= in place of >
RECURSIVE forEachFileAtLeast(_, _, _, _)
forEachFileAtLeast(names, files, now, deletedCount) ==
  IF names = {} THEN [files |-> files, deletedCount |-> deletedCount]
  ELSE LET file == CHOOSE n \in names : TRUE
           stats == files[file]
       IN IF now - stats.mtime >= oneHour
          THEN forEachFileAtLeast(names \ {file},
                                  [n \in DOMAIN files \ {file} |-> files[n]],
                                  now, deletedCount + 1)
          ELSE forEachFileAtLeast(names \ {file}, files, now, deletedCount)

\* lines 177-186: the forEach of the cleanup route over the listed names;
\* the result is the directory afterwards and deletedCount
RECURSIVE forEachFile(_, _, _, _)
forEachFile(names, files, now, deletedCount) ==
  IF names = {} THEN [files |-> files, deletedCount |-> deletedCount]
  ELSE LET file == CHOOSE n \in names : TRUE
           stats == files[file]
       IN IF now - stats.mtime > oneHour
          THEN forEachFile(names \ {file},
                           [n \in DOMAIN files \ {file} |-> files[n]],
                           now, deletedCount + 1)
          ELSE forEachFile(names \ {file}, files, now, deletedCount)

(* ---------------------------------------------------------------------- *)
(* State                                                                   *)
(* ---------------------------------------------------------------------- *)

NoResponse == [status |-> 0]

IdleChat ==
  [pc |-> "idle", prompt |-> Undefined, systemMessage |-> Undefined,
   messages |-> <<>>, textCalls |-> 0, speechCalls |-> 0,
   textResponse |-> <<>>, speechInput |-> <<>>, failedAt |-> "none",
   errorCode |-> "none", audioFileName |-> "", res |-> NoResponse]

IdleGet ==
  [pc |-> "idle", route |-> "none", filename |-> <<>>, path |-> <<>>,
   res |-> NoResponse]

Init ==
  /\ clock = 0
  /\ nodeEnv \in NodeEnvs
  /\ audioFiles = [n \in {} |-> 0]
  /\ chat = [r \in Reqs |-> IdleChat]
  /\ get = IdleGet
  /\ cleanup = NoResponse

(* ---------------------------------------------------------------------- *)
(* POST /api/chat                                                          *)
(* ---------------------------------------------------------------------- *)

\* lines 51-85: the request arrives; validation, and for a valid prompt the
\* text-generation call is issued before the handler first yields
ChatReceive(r, prompts, systems) ==
  /\ chat[r].pc = "idle"
  /\ \E prompt \in prompts, systemMessage \in systems :
       IF PromptRejected(prompt)
       THEN chat' = [chat EXCEPT ![r] =
              [@ EXCEPT !.pc = "done", !.prompt = prompt,
                        !.systemMessage = systemMessage,
                        !.res = [status |-> 400,
                                 error |-> "Prompt is required and cannot be empty"]]]
       ELSE chat' = [chat EXCEPT ![r] =
              [@ EXCEPT !.pc = "awaitText", !.prompt = prompt,
                        !.systemMessage = systemMessage,
                        !.messages = Messages(prompt, systemMessage),
                        !.textCalls = @ + 1]]
  /\ UNCHANGED <<clock, nodeEnv, audioFiles, get, cleanup>>

\* lines 71-96: the chat completion resolves; the speech call is issued on
\* the generated text
TextResolve(r) ==
  /\ chat[r].pc = "awaitText"
  /\ \E text \in TextOutputs :
       chat' = [chat EXCEPT ![r] =
         [@ EXCEPT !.pc = "awaitSpeech", !.textResponse = text,
                   !.speechInput = text, !.speechCalls = @ + 1]]
  /\ UNCHANGED <<clock, nodeEnv, audioFiles, get, cleanup>>

\* a failed chat completion sent again
TextRejectRetry(r, codes) ==
  /\ chat[r].pc = "awaitText"
  /\ \E code \in codes :
       chat' = [chat EXCEPT ![r] = [@ EXCEPT !.textCalls = @ + 1]]
  /\ UNCHANGED <<clock, nodeEnv, audioFiles, get, cleanup>>

\* lines 71, 119-142: the chat completion rejects
TextReject(r, codes) ==
  /\ chat[r].pc = "awaitText"
  /\ \E code \in codes :
       chat' = [chat EXCEPT ![r] =
         [@ EXCEPT !.pc = "done", !.failedAt = "text", !.errorCode = code,
                   !.res = CatchResponse(nodeEnv, ProviderError(code))]]
  /\ UNCHANGED <<clock, nodeEnv, audioFiles, get, cleanup>>

\* lines 91-103: the speech call resolves; the file name is taken from the
\* clock, then the handler yields again for the audio bytes
SpeechResolve(r) ==
  /\ chat[r].pc = "awaitSpeech"
  /\ chat' = [chat EXCEPT ![r] =
       [@ EXCEPT !.pc = "awaitBuffer", !.audioFileName = audioFileName(clock)]]
  /\ UNCHANGED <<clock, nodeEnv, audioFiles, get, cleanup>>

\* a speech failure answered with the generic error whatever its code
SpeechRejectGeneric(r, codes) ==
  /\ chat[r].pc = "awaitSpeech"
  /\ \E code \in codes :
       chat' = [chat EXCEPT ![r] =
         [@ EXCEPT !.pc = "done", !.failedAt = "speech", !.errorCode = code,
                   !.res = [status |-> 500,
                            error |-> "Internal server error while processing your request",
                            type |-> "server_error",
                            details |-> Details(nodeEnv, ProviderError(code))]]]
  /\ UNCHANGED <<clock, nodeEnv, audioFiles, get, cleanup>>

\* lines 91, 119-142: the speech call rejects
SpeechReject(r, codes) ==
  /\ chat[r].pc = "awaitSpeech"
  /\ \E code \in codes :
       chat' = [chat EXCEPT ![r] =
         [@ EXCEPT !.pc = "done", !.failedAt = "speech", !.errorCode = code,
                   !.res = CatchResponse(nodeEnv, ProviderError(code))]]
  /\ UNCHANGED <<clock, nodeEnv, audioFiles, get, cleanup>>

\* the success response sent without the file having been written
BufferResolveNoWrite(r) ==
  /\ chat[r].pc = "awaitBuffer"
  /\ LET name == chat[r].audioFileName
     IN chat' = [chat EXCEPT ![r] =
             [@ EXCEPT !.pc = "done",
                       !.res = [status |-> 200, success |-> TRUE,
                                textResponse |-> chat[r].textResponse,
                                audioUrl |-> audioUrl(name),
                                audioFileName |-> name,
                                timestamp |-> clock,
                                promptLength |-> Len(chat[r].prompt),
                                responseLength |-> Len(chat[r].textResponse)]]]
  /\ UNCHANGED <<clock, nodeEnv, audioFiles, get, cleanup>>

\* the two length fields of the response exchanged
BufferResolveSwapped(r) ==
  /\ chat[r].pc = "awaitBuffer"
  /\ LET name == chat[r].audioFileName
         file == [mtime |-> clock, bytes |-> <<r, chat[r].speechInput>>]
     IN /\ audioFiles' =
             [n \in DOMAIN audioFiles \cup {name} |->
                IF n = name THEN file ELSE audioFiles[n]]
        /\ chat' = [chat EXCEPT ![r] =
             [@ EXCEPT !.pc = "done",
                       !.res = [status |-> 200, success |-> TRUE,
                                textResponse |-> chat[r].textResponse,
                                audioUrl |-> audioUrl(name),
                                audioFileName |-> name,
                                timestamp |-> clock,
                                promptLength |-> Len(chat[r].textResponse),
                                responseLength |-> Len(chat[r].prompt)]]]
  /\ UNCHANGED <<clock, nodeEnv, get, cleanup>>

\* lines 103-117: the bytes arrive, the file is written and the success
\* response is sent
BufferResolve(r) ==
  /\ chat[r].pc = "awaitBuffer"
  /\ LET name == chat[r].audioFileName
         file == [mtime |-> clock, bytes |-> <<r, chat[r].speechInput>>]
     IN /\ audioFiles' =
             [n \in DOMAIN audioFiles \cup {name} |->
                IF n = name THEN file ELSE audioFiles[n]]
        /\ chat' = [chat EXCEPT ![r] =
             [@ EXCEPT !.pc = "done",
                       !.res = [status |-> 200, success |-> TRUE,
                                textResponse |-> chat[r].textResponse,
                                audioUrl |-> audioUrl(name),
                                audioFileName |-> name,
                                timestamp |-> clock,
                                promptLength |-> Len(chat[r].prompt),
                                responseLength |-> Len(chat[r].textResponse)]]]
  /\ UNCHANGED <<clock, nodeEnv, get, cleanup>>

\* lines 103, 119-142: reading the audio bytes rejects
BufferReject(r, codes) ==
  /\ chat[r].pc = "awaitBuffer"
  /\ \E code \in codes :
       chat' = [chat EXCEPT ![r] =
         [@ EXCEPT !.pc = "done", !.failedAt = "buffer", !.errorCode = code,
                   !.res = CatchResponse(nodeEnv, ProviderError(code))]]
  /\ UNCHANGED <<clock, nodeEnv, audioFiles, get, cleanup>>

\* the error of a failed fs.writeFileSync
WriteError == [code |-> "ENOSPC", message |-> "write failed"]

\* lines 104, 119-142: fs.writeFileSync throws, either before the file is
\* created or after it has been created (or an existing one truncated) and
\* only a part of the bytes, here none, has been written
WriteFail(r) ==
  /\ chat[r].pc = "awaitBuffer"
  /\ LET name == chat[r].audioFileName
         part == [mtime |-> clock, bytes |-> <<r, <<>>>>]
     IN \/ UNCHANGED audioFiles
        \/ audioFiles' =
             [n \in DOMAIN audioFiles \cup {name} |->
                IF n = name THEN part ELSE audioFiles[n]]
  /\ chat' = [chat EXCEPT ![r] =
       [@ EXCEPT !.pc = "done", !.failedAt = "write",
                 !.errorCode = WriteError.code,
                 !.res = CatchResponse(nodeEnv, WriteError)]]
  /\ UNCHANGED <<clock, nodeEnv, get, cleanup>>

(* ---------------------------------------------------------------------- *)
(* GET /audio/:filename                                                    *)
(* ---------------------------------------------------------------------- *)

\* the names a chat request has written so far
WrittenNames ==
  {chat[r].res.audioFileName : r \in {q \in Reqs : chat[q].res.status = 200}}

\* req.params.filename, as its "/"-separated segments (an encoded %2F
\* reaches the handler decoded)
GetFilenames ==
  {<<n>> : n \in WrittenNames} \cup {<<"missing.mp3">>, <<"..", "..", "index.js">>}

\* lines 148-162: the existence check; the read stream is created but the
\* file is opened only after the handler has returned
GetRequest ==
  /\ get.pc = "idle"
  /\ \E filename \in GetFilenames :
       LET audioFilePath == Join(audioDir, filename)
       IN IF ~existsSync(audioFiles, audioFilePath)
          THEN get' = [pc |-> "done", route |-> "audio", filename |-> filename,
                       path |-> audioFilePath,
                       res |-> [status |-> 404, error |-> "Audio file not found"]]
          ELSE get' = [pc |-> "streaming", route |-> "audio",
                       filename |-> filename,
                       path |-> audioFilePath, res |-> NoResponse]
  /\ UNCHANGED <<clock, nodeEnv, audioFiles, chat, cleanup>>

\* a file served once and removed after it has been piped
GetStreamOnce ==
  /\ get.pc = "streaming"
  /\ get' = IF get.path \in StaticFiles
            THEN [get EXCEPT !.pc = "done",
                             !.res = [status |-> 200, body |-> <<0, get.path>>]]
            ELSE IF AudioEntry(get.path) \in DOMAIN audioFiles
            THEN [get EXCEPT !.pc = "done",
                             !.res = [status |-> 200,
                                      body |-> audioFiles[AudioEntry(get.path)].bytes]]
            ELSE [get EXCEPT !.pc = "failed"]
  /\ audioFiles' = [n \in DOMAIN audioFiles \ {AudioEntry(get.path)} |->
                      audioFiles[n]]
  /\ UNCHANGED <<clock, nodeEnv, chat, cleanup>>

\* lines 162-163: the stream opens the file and pipes it to the response;
\* if the file is gone by now the stream emits an error nobody handles
GetStream ==
  /\ get.pc = "streaming"
  /\ get' = IF get.path \in StaticFiles
            THEN [get EXCEPT !.pc = "done",
                             !.res = [status |-> 200, body |-> <<0, get.path>>]]
            ELSE IF AudioEntry(get.path) \in DOMAIN audioFiles
            THEN [get EXCEPT !.pc = "done",
                             !.res = [status |-> 200,
                                      body |-> audioFiles[AudioEntry(get.path)].bytes]]
            ELSE [get EXCEPT !.pc = "failed"]
  /\ UNCHANGED <<clock, nodeEnv, audioFiles, chat, cleanup>>

\* lines 39-45: GET /api/health
Health ==
  /\ get.pc = "idle"
  /\ get' = [pc |-> "done", route |-> "health", filename |-> <<>>, path |-> <<>>,
             res |-> [status |-> 200, statusText |-> "Server is running!",
                      timestamp |-> clock, version |-> "1.0.0"]]
  /\ UNCHANGED <<clock, nodeEnv, audioFiles, chat, cleanup>>

\* lines 201-209: GET /api/config (the runtime version and the key flag
\* are fixed by the deployment and are left out of the response)
Config ==
  /\ get.pc = "idle"
  /\ get' = [pc |-> "done", route |-> "config", filename |-> <<>>, path |-> <<>>,
             res |-> [status |-> 200,
                      environment |-> IF nodeEnv = "unset" THEN "development"
                                      ELSE nodeEnv,
                      audioDirectory |-> audioDir,
                      serverTime |-> clock]]
  /\ UNCHANGED <<clock, nodeEnv, audioFiles, chat, cleanup>>

\* the client issues its next GET
GetAgain ==
  /\ get.pc = "done"
  /\ get' = IdleGet
  /\ UNCHANGED <<clock, nodeEnv, audioFiles, chat, cleanup>>

(* ---------------------------------------------------------------------- *)
(* DELETE /api/cleanup                                                     *)
(* ---------------------------------------------------------------------- *)

\* lines 169-191: the whole handler is synchronous
Cleanup ==
  /\ LET files == DOMAIN audioFiles
         now == clock
         done == forEachFile(files, audioFiles, now, 0)
     IN /\ audioFiles' = done.files
        /\ cleanup' = [status |-> 200,
                       message |-> "Cleaned up " \o ToString(done.deletedCount)
                                     \o " old audio files",
                       deletedCount |-> done.deletedCount]
  /\ UNCHANGED <<clock, nodeEnv, chat, get>>

\* a pass that skips the entry whose call throws and carries on
CleanupFailTolerant ==
  /\ \E bad \in DOMAIN audioFiles :
       LET done == forEachFile(DOMAIN audioFiles \ {bad}, audioFiles, clock, 0)
       IN /\ audioFiles' = done.files
          /\ cleanup' = [status |-> 200,
                         message |-> "Cleaned up " \o ToString(done.deletedCount)
                                       \o " old audio files",
                         deletedCount |-> done.deletedCount]
  /\ UNCHANGED <<clock, nodeEnv, chat, get>>

\* lines 177-194: the pass in which fs.statSync or fs.unlinkSync throws at
\* the entry bad: the entries listed before it have been handled, the
\* exception leaves the forEach and the catch block answers
CleanupFail ==
  /\ \E bad \in DOMAIN audioFiles :
       LET files == DOMAIN audioFiles
           now == clock
           before == forEachBefore(files, bad)
           done == forEachFile(before, audioFiles, now, 0)
       IN /\ audioFiles' = done.files
          /\ cleanup' = [status |-> 500, error |-> "Error cleaning up files"]
  /\ UNCHANGED <<clock, nodeEnv, chat, get>>

(* ---------------------------------------------------------------------- *)
(* Time                                                                    *)
(* ---------------------------------------------------------------------- *)

\* how often the clock has advanced so far: every advance is by a
\* millisecond or by an hour, and fewer than an hour's milliseconds occur
Ticks(now) == (now \div oneHour) + (now % oneHour)

\* a timer that sweeps the stale files away as time passes
TickWithSweep ==
  /\ Ticks(clock) < MaxTicks
  /\ \E d \in {1, oneHour} :
       /\ clock' = clock + d
       /\ audioFiles' = forEachFile(DOMAIN audioFiles, audioFiles, clock + d, 0).files
  /\ UNCHANGED <<nodeEnv, chat, get, cleanup>>

\* Date.now() advances, by a millisecond or by an hour
Tick ==
  /\ Ticks(clock) < MaxTicks
  /\ \E d \in {1, oneHour} : clock' = clock + d
  /\ UNCHANGED <<nodeEnv, audioFiles, chat, get, cleanup>>

(* ---------------------------------------------------------------------- *)
(* Specifications                                                          *)
(* ---------------------------------------------------------------------- *)

\* the chat, audio and cleanup routes under overlapping requests; a failed
\* read of the speech body is followed in SpecAuto, SpecFs and SpecChat
Next ==
  \/ \E r \in Reqs : ChatReceive(r, LoadPrompts, LoadSystems)
  \/ \E r \in Reqs : TextResolve(r)
  \/ \E r \in Reqs : TextReject(r, LoadErrorCodes)
  \/ \E r \in Reqs : SpeechResolve(r)
  \/ \E r \in Reqs : SpeechReject(r, LoadErrorCodes)
  \/ \E r \in Reqs : BufferResolve(r)
  \/ GetRequest
  \/ GetStream
  \/ GetAgain
  \/ Cleanup
  \/ Tick

InitLoad == Init /\ nodeEnv = "unset"

Spec == InitLoad /\ [][Next]_vars

\* the server while no client calls DELETE /api/cleanup: what remains is
\* everything the server does by itself and for the other routes, the
\* health and config routes included
NextAuto ==
  \/ \E r \in Reqs : ChatReceive(r, LoadPrompts, LoadSystems)
  \/ \E r \in Reqs : TextResolve(r)
  \/ \E r \in Reqs : TextReject(r, LoadErrorCodes)
  \/ \E r \in Reqs : SpeechResolve(r)
  \/ \E r \in Reqs : SpeechReject(r, LoadErrorCodes)
  \/ \E r \in Reqs : BufferResolve(r)
  \/ \E r \in Reqs : BufferReject(r, LoadErrorCodes)
  \/ GetRequest
  \/ GetStream
  \/ Health
  \/ Config
  \/ GetAgain
  \/ Tick

\* the event loop runs every continuation that is ready, and time passes
FairAuto ==
  /\ WF_vars(Tick)
  /\ WF_vars(GetStream)
  /\ \A r \in Reqs :
       /\ WF_vars(TextResolve(r) \/ TextReject(r, LoadErrorCodes))
       /\ WF_vars(SpeechResolve(r) \/ SpeechReject(r, LoadErrorCodes))
       /\ WF_vars(BufferResolve(r) \/ BufferReject(r, LoadErrorCodes))

SpecAuto == InitLoad /\ [][NextAuto]_vars /\ FairAuto

\* the chat and cleanup routes over a file system whose calls can fail
NextFs ==
  \/ \E r \in Reqs : ChatReceive(r, LoadPrompts, LoadSystems)
  \/ \E r \in Reqs : TextResolve(r)
  \/ \E r \in Reqs : TextReject(r, LoadErrorCodes)
  \/ \E r \in Reqs : SpeechResolve(r)
  \/ \E r \in Reqs : SpeechReject(r, LoadErrorCodes)
  \/ \E r \in Reqs : BufferResolve(r)
  \/ \E r \in Reqs : BufferReject(r, LoadErrorCodes)
  \/ \E r \in Reqs : WriteFail(r)
  \/ Cleanup
  \/ CleanupFail
  \/ Tick

SpecFs == InitLoad /\ [][NextFs]_vars

\* one chat request over every body, every provider failure and every
\* environment
NextChat ==
  \/ ChatReceive(1, PromptInputs, SystemInputs)
  \/ TextResolve(1)
  \/ TextReject(1, ErrorCodes)
  \/ SpeechResolve(1)
  \/ SpeechReject(1, ErrorCodes)
  \/ BufferResolve(1)
  \/ BufferReject(1, ErrorCodes)
  \/ Tick

SpecChat == Init /\ [][NextChat]_vars

(* ---------------------------------------------------------------------- *)
(* Properties                                                              *)
(* ---------------------------------------------------------------------- *)

\* a prompt that is absent, empty or made of whitespace only
BlankPrompt(p) == p = Undefined \/ \A i \in 1 .. Len(p) : p[i] \in Whitespace

\* the request has been received with a prompt that passes validation
Accepted(r) == chat[r].pc # "idle" /\ ~BlankPrompt(chat[r].prompt)

\* the system message sent to the text-generation provider
SentSystem(r) == chat[r].messages[1].content

\* request r has put a file into the audio directory
WroteFile(r) == \E n \in DOMAIN audioFiles : audioFiles[n].bytes[1] = r

\* C1: a chat request whose prompt is absent, empty or whitespace-only is
\* answered 400 with the fixed error body, makes neither provider call and
\* writes no audio file.
C1_BlankPromptRejected ==
  \A r \in Reqs :
    (chat[r].pc # "idle" /\ BlankPrompt(chat[r].prompt)) =>
      /\ chat[r].pc = "done"
      /\ chat[r].res = [status |-> 400,
                         error |-> "Prompt is required and cannot be empty"]
      /\ chat[r].textCalls = 0
      /\ chat[r].speechCalls = 0
      /\ chat[r].audioFileName = ""
      /\ ~WroteFile(r)

C1_Witness ==
  /\ chat[1].pc = "done"
  /\ chat[1].prompt = <<" ", " ">>
  /\ chat[1].res.status = 400

\* C2: any two chat requests that both succeed receive distinct
\* audioFileName values.
C2_DistinctFileNames ==
  \A r1, r2 \in Reqs :
    (r1 # r2 /\ chat[r1].res.status = 200 /\ chat[r2].res.status = 200) =>
      chat[r1].res.audioFileName # chat[r2].res.audioFileName

C5_AbsentSystemGetsDefault ==
  \A r \in Reqs :
    (Accepted(r) /\ chat[r].systemMessage = Undefined) =>
      /\ chat[r].textCalls = 1
      /\ SentSystem(r) = FixedDefaultSystemMessage

C5_Witness ==
  /\ chat[1].pc = "awaitText"
  /\ chat[1].prompt = SayHello
  /\ chat[1].systemMessage = Undefined
  /\ SentSystem(1) = FixedDefaultSystemMessage

\* the entries cleanup has to remove at time now
Stale(files, now) == {n \in DOMAIN files : now - files[n].mtime > oneHour}

\* C6: a cleanup removes exactly the entries whose last-modified time is
\* more than one hour before its start, leaves every other entry as it was,
\* and reports deletedCount equal to the number of entries it removed.
C6_CleanupRemovesExactlyStale ==
  [][Cleanup =>
       /\ DOMAIN audioFiles' = DOMAIN audioFiles \ Stale(audioFiles, clock)
       /\ \A n \in DOMAIN audioFiles' : audioFiles'[n] = audioFiles[n]
       /\ cleanup'.status = 200
       /\ cleanup'.deletedCount = Cardinality(Stale(audioFiles, clock))]_vars

C6_Witness ==
  /\ cleanup.status = 200
  /\ cleanup.deletedCount = 1
  /\ \E n \in DOMAIN audioFiles : clock - audioFiles[n].mtime = oneHour

\* C7: a GET for a filename that no chat request has ever written is
\* answered 404.
C7_NeverWrittenIs404 ==
  (get.route = "audio" /\ get.filename \notin {<<n>> : n \in WrittenNames}) =>
    (get.pc = "done" /\ get.res.status = 404)

\* the provider failures the claims tell apart
QuotaOrRateLimit == {"insufficient_quota", "rate_limit_exceeded"}
AuthFailure == {"invalid_api_key"}

\* C8 as stated: a failed text-generation call is answered 429 for quota or
\* rate-limit exhaustion, 401 for an authentication failure and 500 for
\* every other failure, and no audio file is produced.
C8_TextFailureStatus ==
  \A r \in Reqs :
    chat[r].failedAt = "text" =>
      /\ chat[r].res.status =
           IF chat[r].errorCode \in QuotaOrRateLimit THEN 429
           ELSE IF chat[r].errorCode \in AuthFailure THEN 401
           ELSE 500
      /\ chat[r].audioFileName = ""
      /\ ~WroteFile(r)

\* C8 amended: a failed text-generation call is answered 429 when the
\* error code is insufficient_quota, 401 when it is invalid_api_key and 500
\* for every other failure, a rate-limit error included; no audio file is
\* produced and the speech call is not made.
C8_TextFailureStatusByCode ==
  \A r \in Reqs :
    chat[r].failedAt = "text" =>
      /\ chat[r].res.status =
           IF chat[r].errorCode = "insufficient_quota" THEN 429
           ELSE IF chat[r].errorCode = "invalid_api_key" THEN 401
           ELSE 500
      /\ chat[r].speechCalls = 0
      /\ chat[r].audioFileName = ""
      /\ ~WroteFile(r)

C8_Witness ==
  /\ chat[1].failedAt = "text"
  /\ chat[1].errorCode = "rate_limit_exceeded"
  /\ chat[1].res.status = 500

\* C9 as stated: a failed speech-synthesis call is answered 500 whatever
\* the kind of failure.
C9_SpeechFailureIs500 ==
  \A r \in Reqs : chat[r].failedAt = "speech" => chat[r].res.status = 500

\* C9 amended: a failed speech-synthesis call is answered like a failed
\* text-generation call: 429 when the error code is insufficient_quota, 401
\* when it is invalid_api_key, and the generic 500 for every other failure.
C9_SpeechFailureStatusByCode ==
  \A r \in Reqs :
    chat[r].failedAt = "speech" =>
      chat[r].res.status =
        IF chat[r].errorCode = "insufficient_quota" THEN 429
        ELSE IF chat[r].errorCode = "invalid_api_key" THEN 401
        ELSE 500

C9_Witness ==
  /\ chat[1].failedAt = "speech"
  /\ chat[1].errorCode = "insufficient_quota"
  /\ chat[1].res.status = 429

\* the 500 response carries the error message as its detail
HasDetail(res) == res.details # "undefined"

\* C10 as stated: a 500 response of the chat route carries the diagnostic
\* detail if and only if the environment is not production.
C10_DetailOutsideProduction ==
  \A r \in Reqs :
    chat[r].res.status = 500 =>
      (HasDetail(chat[r].res) <=> nodeEnv # "production")

\* C10 amended: a 500 response of the chat route carries the diagnostic
\* detail (the error message) if and only if the environment name is
\* exactly development; it is omitted in production, when the name is
\* unset, and for any other value.
C10_DetailInDevelopmentOnly ==
  \A r \in Reqs :
    chat[r].res.status = 500 =>
      /\ HasDetail(chat[r].res) <=> nodeEnv = "development"
      /\ HasDetail(chat[r].res) => chat[r].res.details = "provider error"

C10_Witness ==
  /\ chat[1].res.status = 500
  /\ nodeEnv = "unset"
  /\ ~HasDetail(chat[1].res)

\* the values the clock can take, and the file names made from them
ClockValues == {a + b * oneHour : a \in 0 .. MaxTicks, b \in 0 .. MaxTicks}
AudioNames == {audioFileName(t) : t \in ClockValues}

\* the file n is in the audio directory and older than the threshold
IsStale(n) ==
  n \in DOMAIN audioFiles /\ clock - audioFiles[n].mtime > oneHour

\* C11: every audio file that becomes older than the age threshold is
\* eventually deleted by the server, without any client calling
\* DELETE /api/cleanup.
C11_AutomaticCleanup ==
  \A n \in AudioNames : IsStale(n) ~> (n \notin DOMAIN audioFiles)

AudioUrls == {"/audio/response_" \o ToString(t) \o ".mp3" : t \in ClockValues}

\* C13 as stated: for the body {"prompt":"Say hello"} with both provider
\* calls succeeding the response is 200 with success true, an audioUrl of
\* the form /audio/response_<digits>.mp3 and promptLength = 10.
C13_SayHelloLength10 ==
  \A r \in Reqs :
    (chat[r].prompt = SayHello /\ chat[r].pc = "done"
       /\ chat[r].failedAt = "none") =>
      /\ chat[r].res.status = 200
      /\ chat[r].res.success = TRUE
      /\ chat[r].res.audioUrl \in AudioUrls
      /\ chat[r].res.promptLength = 10

\* C13 amended: for the body {"prompt":"Say hello"} with both provider
\* calls succeeding the response is 200 with success true, an audioUrl of
\* the form /audio/response_<digits>.mp3 and promptLength = 9, the number
\* of characters of "Say hello".
C13_SayHelloLength9 ==
  \A r \in Reqs :
    (chat[r].prompt = SayHello /\ chat[r].pc = "done"
       /\ chat[r].failedAt = "none") =>
      /\ chat[r].res.status = 200
      /\ chat[r].res.success = TRUE
      /\ chat[r].res.audioUrl \in AudioUrls
      /\ chat[r].res.promptLength = 9

C13_Witness ==
  /\ chat[1].prompt = SayHello
  /\ chat[1].res.status = 200
  /\ chat[1].res.promptLength = 9

\* C14: a chat request makes at most one text-generation call and at most
\* one speech-synthesis call; a failure is followed by no further provider
\* call of the request, and a response once sent is final.
C14_NoRetry ==
  [][\A r \in Reqs :
       /\ chat'[r].textCalls <= 1
       /\ chat'[r].speechCalls <= 1
       /\ chat[r].pc = "done" => chat'[r] = chat[r]
       /\ (chat[r].res.status = 0 /\ chat'[r].res.status \notin {0, 200}) =>
            /\ chat'[r].pc = "done"
            /\ chat'[r].textCalls = chat[r].textCalls
            /\ chat'[r].speechCalls = chat[r].speechCalls]_vars

C14_Witness ==
  /\ chat[1].pc = "done"
  /\ chat[1].failedAt = "speech"
  /\ chat[1].textCalls = 1
  /\ chat[1].speechCalls = 1

\* C15: the messages forwarded for a request are exactly one system
\* message and one user message, fixed by that request's own prompt and
\* systemMessage whatever the other requests are or were.
C15_Stateless ==
  \A r \in Reqs :
    Accepted(r) =>
      /\ Len(chat[r].messages) = 2
      /\ chat[r].messages[1] =
           [role |-> "system",
            content |-> IF chat[r].systemMessage \in {Undefined, <<>>}
                        THEN FixedDefaultSystemMessage
                        ELSE chat[r].systemMessage]
      /\ chat[r].messages[2] = [role |-> "user", content |-> chat[r].prompt]
      /\ \A q \in Reqs :
           (Accepted(q) /\ chat[q].prompt = chat[r].prompt
              /\ chat[q].systemMessage = chat[r].systemMessage) =>
             chat[q].messages = chat[r].messages

C15_Witness ==
  /\ chat[1].res.status = 200
  /\ chat[2].pc = "awaitText"
  /\ Len(chat[2].messages) = 2

\* C16: within one chat request the steps come in the order validate, text
\* generation, speech synthesis on the generated text, write, respond: the
\* success response is sent in the step that has written the file named
\* by audioFileName, and audioUrl is "/audio/" followed by that name.
C16_StepOrder ==
  [][\A r \in Reqs :
       /\ chat'[r].pc = "awaitText" =>
            /\ chat[r].pc \in {"idle", "awaitText"}
            /\ ~BlankPrompt(chat'[r].prompt)
            /\ chat'[r].textCalls = 1
            /\ chat'[r].speechCalls = 0
       /\ chat'[r].pc = "awaitSpeech" =>
            /\ chat[r].pc \in {"awaitText", "awaitSpeech"}
            /\ chat'[r].speechCalls = 1
            /\ chat'[r].speechInput = chat'[r].textResponse
            /\ chat'[r].audioFileName = ""
       /\ chat'[r].pc = "awaitBuffer" =>
            /\ chat[r].pc \in {"awaitSpeech", "awaitBuffer"}
            /\ chat'[r].res = NoResponse
            /\ \A n \in DOMAIN audioFiles' : audioFiles'[n].bytes[1] # r
       /\ (chat[r].res.status # 200 /\ chat'[r].res.status = 200) =>
            /\ chat[r].pc = "awaitBuffer"
            /\ chat'[r].res.audioFileName = chat[r].audioFileName
            /\ chat'[r].res.audioUrl = "/audio/" \o chat'[r].res.audioFileName
            /\ chat[r].audioFileName \in DOMAIN audioFiles'
            /\ audioFiles'[chat[r].audioFileName].bytes =
                 <<r, chat[r].textResponse>>]_vars

C16_Witness ==
  /\ chat[1].res.status = 200
  /\ chat[1].res.audioFileName \in DOMAIN audioFiles
  /\ audioFiles[chat[1].res.audioFileName].bytes = <<1, chat[1].textResponse>>

\* the GET handler has found its audio file present and has not opened it
\* yet
PastCheck == get.pc = "streaming" /\ AudioEntry(get.path) # ""

\* C17: a cleanup can delete the file after the GET handler has found it
\* present and before the handler has opened it.  The state is reached
\* (C17_Witness), and the step that takes the file away under the handler
\* is a cleanup, which leaves the handler where it was.
C17_DeletedUnderGet ==
  [][(PastCheck /\ AudioEntry(get.path) \in DOMAIN audioFiles
        /\ AudioEntry(get.path) \notin DOMAIN audioFiles') =>
       (Cleanup /\ get' = get)]_vars

C17_Witness == PastCheck /\ AudioEntry(get.path) \notin DOMAIN audioFiles

\* C18: when inspecting or deleting one entry fails during a cleanup pass,
\* the pass is answered 500 without a deletedCount, the entries from the
\* failing one on are left as they were, and the stale entries listed
\* before it stay deleted.
C18_FailedPassAborts ==
  [][CleanupFail =>
       /\ cleanup' = [status |-> 500, error |-> "Error cleaning up files"]
       /\ \A n \in DOMAIN audioFiles' :
            n \in DOMAIN audioFiles /\ audioFiles'[n] = audioFiles[n]
       /\ \E bad \in DOMAIN audioFiles' :
            DOMAIN audioFiles \ DOMAIN audioFiles' =
              Stale(audioFiles, clock) \cap forEachBefore(DOMAIN audioFiles, bad)]_vars

C18_Witness ==
  /\ cleanup.status = 500
  /\ \E n \in WrittenNames : n \notin DOMAIN audioFiles
  /\ DOMAIN audioFiles # {}

\* C19: a chat request that ends with a response other than success leaves
\* the audio directory as it was: a file put there by a chat request is
\* the file of a request that returned success.
C19_FailureWritesNothing ==
  \A r \in Reqs : WroteFile(r) => chat[r].res.status = 200

\* C20: for every successful chat response whose audio file still exists,
\* the bytes a GET on its audioUrl serves are the bytes synthesized for
\* that response's text; no other chat request has overwritten the file.
C20_ServedBytesAreOwn ==
  \A r \in Reqs :
    (chat[r].res.status = 200
       /\ chat[r].res.audioFileName \in DOMAIN audioFiles) =>
      audioFiles[chat[r].res.audioFileName].bytes = <<r, chat[r].textResponse>>

====
